---- MODULE Spec2Model ----
(***************************************************************************)
(* A model of the fear_data table pipeline:                                *)
(*   src/fear_data/fc_dat.py   load_data, clean_data, label_fc_data,       *)
(*                              tfc_trials_df   (variant "fc_dat")          *)
(*   src/load_data.py          load_dat, clean_dat (variant "legacy")      *)
(* Text cells are TLA+ strings; a table value is a record [t, n, s] with   *)
(* t in {"int","float","str","sec","nan"}, n its number (a float is held   *)
(* in tenths) and s its text.                                              *)
(***************************************************************************)
EXTENDS Integers, Sequences, FiniteSets, TLC

VARIABLES
    pc,         \* position in the pipeline run
    variant,    \* "fc_dat" or "legacy": which copy of the pipeline runs
    session,    \* the session argument
    interned,   \* outcome of the identity test `session is '<literal>'` when the values are equal
    cfg,        \* expt_info: [sessions, group_ids, sex, sex_ids]
    file,       \* the source export: a sequence of csv records, each a sequence of cells
    skiprows,   \* what find_start returned
    df,         \* the DataFrame being built: [cols, dtypes, rows]
    df0,        \* the DataFrame as it was before the operation under study
    out,        \* result of a later stage (pivot / melt)
    err,        \* the exception raised, or NoErr
    comp_labs,  \* the phase boundary table: sequence of [phase, start, end]
    win         \* [start, end]: win_start and win_end

vars == <<pc, variant, session, interned, cfg, file, skiprows, df, df0, out, err, comp_labs, win>>

(***************************************************************************)
(* Bounds of the model.                                                    *)
(***************************************************************************)
MaxLines == 6      \* records in a raw export handed to find_start
MaxRows == 2       \* data records in an export handed to load_data

(***************************************************************************)
(* Text.                                                                   *)
(***************************************************************************)
UpperAlpha == "ABCDEFGHIJKLMNOPQRSTUVWXYZ"
LowerAlpha == "abcdefghijklmnopqrstuvwxyz"
Digits == "0123456789"

CharAt(s, i) == SubSeq(s, i, i)

\* str.lower() on one character
LowerChar(c) ==
    IF \E i \in 1..26 : CharAt(UpperAlpha, i) = c
    THEN CharAt(LowerAlpha, CHOOSE i \in 1..26 : CharAt(UpperAlpha, i) = c)
    ELSE c

RECURSIVE lower(_)
lower(s) == IF Len(s) = 0 THEN "" ELSE LowerChar(CharAt(s, 1)) \o lower(SubSeq(s, 2, Len(s)))

\* `sub in s` / Series.str.contains(sub) for a literal sub
contains(s, sub) ==
    \E i \in 1..(Len(s) - Len(sub) + 1) : SubSeq(s, i, i + Len(sub) - 1) = sub

\* a mutant of re_match: whole-cell equality instead of a match anchored at the start
re_match_full(pattern, text) == pattern = text

\* re.match(pattern, text) != None for a literal pattern: the text starts with it
re_match(pattern, text) ==
    Len(text) >= Len(pattern) /\ SubSeq(text, 1, Len(pattern)) = pattern

IsDigit(c) == \E i \in 1..10 : CharAt(Digits, i) = c
DigitVal(c) == (CHOOSE i \in 1..10 : CharAt(Digits, i) = c) - 1

IsIntText(s) == Len(s) > 0 /\ \A i \in 1..Len(s) : IsDigit(CharAt(s, i))

\* digits "." digit: the floats of the model carry one decimal
IsFloatText(s) ==
    /\ Len(s) >= 3
    /\ CharAt(s, Len(s) - 1) = "."
    /\ IsDigit(CharAt(s, Len(s)))
    /\ IsIntText(SubSeq(s, 1, Len(s) - 2))

RECURSIVE ParseInt(_)
ParseInt(s) ==
    IF Len(s) = 0 THEN 0
    ELSE 10 * ParseInt(SubSeq(s, 1, Len(s) - 1)) + DigitVal(CharAt(s, Len(s)))

\* value in tenths of a numeric cell
ParseTenths(s) ==
    IF IsIntText(s) THEN 10 * ParseInt(s)
    ELSE 10 * ParseInt(SubSeq(s, 1, Len(s) - 2)) + DigitVal(CharAt(s, Len(s)))

(***************************************************************************)
(* Values and frames.                                                      *)
(***************************************************************************)
NaN == [t |-> "nan", n |-> 0, s |-> ""]
IntV(n) == [t |-> "int", n |-> n, s |-> ""]
FloatV(tenths) == [t |-> "float", n |-> tenths, s |-> ""]
StrV(s) == [t |-> "str", n |-> 0, s |-> s]

isnull(x) == x.t = "nan"

\* the cells read_csv reads as missing
IsNA(cell) == cell \in {"", "nan", "NaN"}

\* astype('str')
astype_str(x) ==
    CASE x.t = "int" -> StrV(ToString(x.n))
      [] x.t = "float" -> StrV(ToString(x.n \div 10) \o "." \o ToString(x.n % 10))
      [] x.t = "nan" -> StrV("nan")
      [] OTHER -> x

\* astype('int') on a number: truncation
astype_int(x) == IF x.t = "float" THEN IntV(x.n \div 10) ELSE x

NoErr == "none"
\* find_start falls off the end of its loop: Python's None, held as -1 (line numbers are >= 0)
None == -1

EmptyFrame == [cols |-> <<>>, dtypes |-> <<>>, rows |-> <<>>]

Range(s) == {s[i] : i \in 1..Len(s)}

RECURSIVE SelectSeq2(_, _)
\* the subsequence of s at the positions in keep, in order
SelectSeq2(s, keep) ==
    IF Len(s) = 0 THEN <<>>
    ELSE SelectSeq2(SubSeq(s, 1, Len(s) - 1), keep)
         \o (IF Len(s) \in keep THEN <<s[Len(s)]>> ELSE <<>>)

(***************************************************************************)
(* find_start: the index of the first record with a cell that starts with  *)
(* start_row; the loop falls through (None) when there is none.            *)
(***************************************************************************)
start_row == "Experiment"

RECURSIVE scan(_, _)
scan(test, line_num) ==
    IF line_num >= Len(test) THEN None
    ELSE IF \E j \in 1..Len(test[line_num + 1]) : re_match(start_row, test[line_num + 1][j])
         THEN line_num
         ELSE scan(test, line_num + 1)

find_start(f) == scan(f, 0)

(***************************************************************************)
(* pd.read_csv(file, skiprows=n): the record after the skipped ones is the *)
(* header; each column's dtype is inferred from its cells.                 *)
(***************************************************************************)
ColDtype(cells) ==
    IF Len(cells) = 0 THEN "object"
    ELSE IF \A i \in 1..Len(cells) : IsIntText(cells[i]) THEN "int64"
    ELSE IF \A i \in 1..Len(cells) :
                IsIntText(cells[i]) \/ IsFloatText(cells[i]) \/ IsNA(cells[i])
         THEN "float64"
    ELSE "object"

ParseCell(dtype, cell) ==
    CASE dtype = "int64" -> IntV(ParseInt(cell))
      [] dtype = "float64" -> IF IsNA(cell) THEN NaN ELSE FloatV(ParseTenths(cell))
      [] OTHER -> IF IsNA(cell) THEN NaN ELSE StrV(cell)

read_csv(f, skip) ==
    LET n == IF skip = None THEN 0 ELSE skip
        header == f[n + 1]
        data == SubSeq(f, n + 2, Len(f))
        cell(r, j) == IF j <= Len(data[r]) THEN data[r][j] ELSE ""
        col(j) == [r \in 1..Len(data) |-> cell(r, j)]
        dt == [j \in 1..Len(header) |-> ColDtype(col(j))]
    IN  [cols |-> header,
         dtypes |-> dt,
         rows |-> [r \in 1..Len(data) |->
                     [j \in 1..Len(header) |-> ParseCell(dt[j], cell(r, j))]]]

\* position of a column, 0 when the frame has no such column
ColIdx(d, name) ==
    IF \E j \in 1..Len(d.cols) : d.cols[j] = name
    THEN CHOOSE j \in 1..Len(d.cols) : d.cols[j] = name
    ELSE 0

HasCol(d, name) == ColIdx(d, name) # 0

Cell(d, r, name) == d.rows[r][ColIdx(d, name)]

\* df.dropna(thresh=k): keep the rows with at least k non-null values
dropna_thresh(d, k) ==
    LET keep == {r \in 1..Len(d.rows) :
                    Cardinality({j \in 1..Len(d.cols) : ~isnull(d.rows[r][j])}) >= k}
    IN  [d EXCEPT !.rows = SelectSeq2(d.rows, keep)]

\* df.dropna(): keep the rows with no null value
dropna(d) ==
    LET keep == {r \in 1..Len(d.rows) : \A j \in 1..Len(d.cols) : ~isnull(d.rows[r][j])}
    IN  [d EXCEPT !.rows = SelectSeq2(d.rows, keep)]

\* df.reindex(columns=names): exactly these columns, a missing one all-NaN
reindex(d, names) ==
    [cols |-> names,
     dtypes |-> [j \in 1..Len(names) |->
                    IF HasCol(d, names[j]) THEN d.dtypes[ColIdx(d, names[j])] ELSE "float64"],
     rows |-> [r \in 1..Len(d.rows) |->
                  [j \in 1..Len(names) |->
                      IF HasCol(d, names[j]) THEN Cell(d, r, names[j]) ELSE NaN]]]

\* a column replaced (or appended) by the values f[r]
SetCol(d, name, dtype, f) ==
    IF HasCol(d, name)
    THEN [d EXCEPT !.dtypes[ColIdx(d, name)] = dtype,
                   !.rows = [r \in 1..Len(d.rows) |->
                                [d.rows[r] EXCEPT ![ColIdx(d, name)] = f[r]]]]
    ELSE [cols |-> Append(d.cols, name),
          dtypes |-> Append(d.dtypes, dtype),
          rows |-> [r \in 1..Len(d.rows) |-> Append(d.rows[r], f[r])]]

old_col_list == <<"Animal", "Group", "Component Name", "Pct Component Time Freezing", "Avg Motion Index">>
new_col_list == <<"Animal", "Group", "Component", "PctFreeze", "AvgMotion">>

\* df.rename(columns=zip(old_col_list, new_col_list))
rename(d) ==
    [d EXCEPT !.cols = [j \in 1..Len(d.cols) |->
        IF \E k \in 1..Len(old_col_list) : old_col_list[k] = d.cols[j]
        THEN new_col_list[CHOOSE k \in 1..Len(old_col_list) : old_col_list[k] = d.cols[j]]
        ELSE d.cols[j]]]

(***************************************************************************)
(* Group and sex labels: for key, val in mapping.items():                  *)
(*     df.loc[df['Animal'].isin(val), col] = key                           *)
(***************************************************************************)
\* a mutant of assign_label: the label is added to the one already there (`+=` for `=`)
assign_label_accumulate(d, entry, col) ==
    SetCol(d, col, "object",
           [r \in 1..Len(d.rows) |->
               IF Cell(d, r, "Animal") \in entry.val
               THEN (IF HasCol(d, col) /\ Cell(d, r, col).t = "str"
                     THEN StrV(Cell(d, r, col).s \o entry.key)
                     ELSE StrV(entry.key))
               ELSE IF HasCol(d, col) THEN Cell(d, r, col) ELSE NaN])

\* a mutant of assign_label: a row that already has a label keeps it (first match wins)
assign_label_keep_first(d, entry, col) ==
    SetCol(d, col, "object",
           [r \in 1..Len(d.rows) |->
               IF HasCol(d, col) /\ ~isnull(Cell(d, r, col)) THEN Cell(d, r, col)
               ELSE IF Cell(d, r, "Animal") \in entry.val THEN StrV(entry.key)
               ELSE NaN])

\* one pass of the loop body; the column is created (all NaN) when the frame lacks it
assign_label(d, entry, col) ==
    SetCol(d, col, "object",
           [r \in 1..Len(d.rows) |->
               IF Cell(d, r, "Animal") \in entry.val THEN StrV(entry.key)
               ELSE IF HasCol(d, col) THEN Cell(d, r, col) ELSE NaN])

RECURSIVE fill_labels(_, _, _)
fill_labels(d, mapping, col) ==
    IF Len(mapping) = 0 THEN d
    ELSE fill_labels(assign_label(d, Head(mapping), col), Tail(mapping), col)

\* setting a scalar into a new column of a frame without rows raises ValueError
fill_raises(d, mapping, col) == Len(mapping) > 0 /\ ~HasCol(d, col) /\ Len(d.rows) = 0

\* "Fill in Group info": the group loop, then the sex loop when cfg.sex is True
annotate(d, c) ==
    LET g == fill_labels(d, c.group_ids, "Group")
    IN  IF c.sex THEN fill_labels(g, c.sex_ids, "Sex") ELSE g

annotate_raises(d, c) ==
    \/ fill_raises(d, c.group_ids, "Group")
    \/ c.sex /\ fill_raises(fill_labels(d, c.group_ids, "Group"), c.sex_ids, "Sex")

(***************************************************************************)
(* load_data / load_dat, one action per step.                              *)
(***************************************************************************)
Raise(e) == /\ pc' = "raised"
            /\ err' = e

\* `if session.lower() not in expt_info['sessions']: raise ValueError`
ValidateSession ==
    /\ pc = "start"
    /\ IF lower(session) \notin cfg.sessions
       THEN Raise("InvalidSession")
       ELSE pc' = "validated" /\ err' = err
    /\ UNCHANGED <<variant, session, interned, cfg, file, skiprows, df, df0, out, comp_labs, win>>

\* the call find_start(file) in `pd.read_csv(file, skiprows=find_start(file))`
FindStart ==
    /\ pc = "validated"
    /\ skiprows' = find_start(file)
    /\ pc' = "located"
    /\ UNCHANGED <<variant, session, interned, cfg, file, df, df0, out, err, comp_labs, win>>

\* reset_index(): the old index becomes a column named "index"
reset_index(d) ==
    [cols |-> <<"index">> \o d.cols,
     dtypes |-> <<"int64">> \o d.dtypes,
     rows |-> [r \in 1..Len(d.rows) |-> <<IntV(r - 1)>> \o d.rows[r]]]

\* pd.read_csv(...); fc_dat goes on with .replace('nan', NaN).dropna(thresh=2).reset_index()
ReadCsv ==
    /\ pc = "located"
    /\ LET n == IF skiprows = None THEN 0 ELSE skiprows
       IN  IF n >= Len(file)
           THEN Raise("EmptyDataError") /\ df' = df
           ELSE /\ df' = IF variant = "fc_dat"
                         THEN reset_index(dropna_thresh(read_csv(file, skiprows), 2))
                         ELSE read_csv(file, skiprows)
                /\ pc' = "parsed"
                /\ err' = err
    /\ UNCHANGED <<variant, session, interned, cfg, file, skiprows, df0, out, comp_labs, win>>

\* fc_dat: `if dtype is float64 or int64: df.loc[:, 'Animal'] = astype('int').astype('str')`
canon_animal(d) ==
    IF d.dtypes[ColIdx(d, "Animal")] \in {"float64", "int64"}
    THEN SetCol(d, "Animal", "object",
                [r \in 1..Len(d.rows) |-> astype_str(astype_int(Cell(d, r, "Animal")))])
    ELSE d

CanonAnimal ==
    /\ pc = "parsed"
    /\ variant = "fc_dat"
    /\ IF ~HasCol(df, "Animal")
       THEN Raise("KeyError") /\ df' = df
       ELSE IF /\ df.dtypes[ColIdx(df, "Animal")] = "float64"
               /\ \E r \in 1..Len(df.rows) : isnull(Cell(df, r, "Animal"))
       THEN Raise("ValueError") /\ df' = df
       ELSE /\ df' = canon_animal(df)
            /\ pc' = "canon"
            /\ err' = err
    /\ UNCHANGED <<variant, session, interned, cfg, file, skiprows, df0, out, comp_labs, win>>

\* a mutant of select_rename: the columns are renamed but the extraneous ones are not dropped
select_rename_keep_extras(d) == rename(d)

\* reindex to the five source columns, then rename them; load_dat returns here
select_rename(d) == rename(reindex(d, old_col_list))

SelectRename ==
    /\ \/ pc = "canon" /\ variant = "fc_dat" /\ pc' = "renamed"
       \/ pc = "parsed" /\ variant = "legacy" /\ pc' = "loaded"
    /\ df' = select_rename(df)
    /\ UNCHANGED <<variant, session, interned, cfg, file, skiprows, df0, out, err, comp_labs, win>>

\* fc_dat: the group and sex loops that end load_data
Annotate ==
    /\ pc = "renamed"
    /\ variant = "fc_dat"
    /\ df0' = df
    /\ IF annotate_raises(df, cfg)
       THEN Raise("ValueError") /\ df' = df
       ELSE /\ df' = annotate(df, cfg)
            /\ pc' = "loaded"
            /\ err' = err
    /\ UNCHANGED <<variant, session, interned, cfg, file, skiprows, out, comp_labs, win>>

\* legacy clean_dat: df['Animal'].astype('str'); df['Component'].astype('str')
clean_cast(d) ==
    SetCol(SetCol(d, "Animal", "object",
                  [r \in 1..Len(d.rows) |-> astype_str(Cell(d, r, "Animal"))]),
           "Component", "object",
           [r \in 1..Len(d.rows) |-> astype_str(Cell(d, r, "Component"))])

CleanCast ==
    /\ pc = "loaded"
    /\ variant = "legacy"
    /\ df' = clean_cast(df)
    /\ pc' = "cast"
    /\ UNCHANGED <<variant, session, interned, cfg, file, skiprows, df0, out, err, comp_labs, win>>

(***************************************************************************)
(* Inputs.                                                                 *)
(***************************************************************************)
SeqsUpTo(S, lo, hi) == UNION {[1..n -> S] : n \in lo..hi}

Variants == {"fc_dat", "legacy"}

NoCfg == [sessions |-> {}, group_ids |-> <<>>, sex |-> FALSE, sex_ids |-> <<>>]
NoWin == [start |-> 0, end |-> 0]

\* group_ids / sex_ids mappings, in the order of the yaml file
GroupsA == <<[key |-> "ctl", val |-> {StrV("1")}],
             [key |-> "exp", val |-> {StrV("1"), StrV("3")}]>>
GroupsB == <<[key |-> "exp", val |-> {StrV("3"), IntV(1)}]>>
SexIds == <<[key |-> "f", val |-> {StrV("1")}], [key |-> "m", val |-> {StrV("3")}]>>

Configs ==
    {[sessions |-> {"train", "tone"}, group_ids |-> GroupsA, sex |-> FALSE, sex_ids |-> <<>>],
     [sessions |-> {"Train", "tone"}, group_ids |-> GroupsA, sex |-> TRUE, sex_ids |-> SexIds],
     [sessions |-> {"train", "tone"}, group_ids |-> GroupsB, sex |-> TRUE, sex_ids |-> <<>>],
     [sessions |-> {"train", "tone"}, group_ids |-> GroupsB, sex |-> TRUE, sex_ids |-> SexIds]}

Sessions == {"train", "Train", "ctx"}

\* records of a raw export as find_start sees them
JunkRecord == <<"junk", "">>
StartRecords == {JunkRecord, <<"My Experiment", "x">>, <<"Experiment 1">>, <<"a", "Experiment">>}
StartFiles == SeqsUpTo(StartRecords, 1, MaxLines)

\* header records of an export: the VideoFreeze header opens with an "Experiment" column
HeaderFull == <<"Experiment", "Animal", "Group", "Component Name",
                "Pct Component Time Freezing", "Avg Motion Index", "Trial">>
HeaderNoMarker == <<"Animal", "Group", "Component Name",
                    "Pct Component Time Freezing", "Avg Motion Index">>
HeaderNoGroup == <<"Experiment", "Animal", "Component Name",
                   "Pct Component Time Freezing", "Avg Motion Index">>
HeaderNoAnimal == <<"Experiment", "Group", "Component Name",
                    "Pct Component Time Freezing", "Avg Motion Index">>
Headers == {HeaderFull, HeaderNoMarker, HeaderNoGroup, HeaderNoAnimal}

\* data records are drawn by kind: the Animal cell, the Group cell, a blank record
RowKinds ==
    {[animal |-> "1", group |-> "", blank |-> FALSE],
     [animal |-> "3.0", group |-> "g0", blank |-> FALSE],
     [animal |-> "3.7", group |-> "", blank |-> FALSE],
     [animal |-> "m1", group |-> "g0", blank |-> FALSE],
     [animal |-> "3", group |-> "g0", blank |-> FALSE],
     [animal |-> "", group |-> "", blank |-> TRUE]}

DataCell(k, name) ==
    IF k.blank THEN ""
    ELSE CASE name = "Experiment" -> "e1"
           [] name = "Animal" -> k.animal
           [] name = "Group" -> k.group
           [] name = "Component Name" -> "Tone-1"
           [] name = "Pct Component Time Freezing" -> "50.0"
           [] name = "Avg Motion Index" -> "1.5"
           [] OTHER -> "2"

DataRecord(h, k) == [j \in 1..Len(h) |-> DataCell(k, h[j])]

Preambles == {<<>>, <<JunkRecord>>}

LoadFiles ==
    {p \o <<h>> \o [r \in 1..Len(ks) |-> DataRecord(h, ks[r])] :
        p \in Preambles, h \in Headers, ks \in SeqsUpTo(RowKinds, 0, MaxRows)}

(***************************************************************************)
(* SpecStart: find_start and the read that follows it, on raw exports.     *)
(***************************************************************************)
InitStart ==
    /\ pc = "validated"
    /\ variant \in Variants
    /\ session = "train"
    /\ interned = FALSE
    /\ cfg = NoCfg
    /\ file \in StartFiles
    /\ skiprows = None
    /\ df = EmptyFrame
    /\ df0 = EmptyFrame
    /\ out = EmptyFrame
    /\ err = NoErr
    /\ comp_labs = <<>>
    /\ win = NoWin

NextStart == FindStart \/ ReadCsv

SpecStart == InitStart /\ [][NextStart]_vars

(***************************************************************************)
(* SpecLoad: load_data (fc_dat) and load_dat + the casts of clean_dat      *)
(* (legacy), from the session check on.                                    *)
(***************************************************************************)
InitLoad ==
    /\ pc = "start"
    /\ variant \in Variants
    /\ session \in Sessions
    /\ interned = FALSE
    /\ cfg \in Configs
    /\ file \in LoadFiles
    /\ skiprows = None
    /\ df = EmptyFrame
    /\ df0 = EmptyFrame
    /\ out = EmptyFrame
    /\ err = NoErr
    /\ comp_labs = <<>>
    /\ win = NoWin

NextLoad ==
    \/ ValidateSession
    \/ FindStart
    \/ ReadCsv
    \/ CanonAnimal
    \/ SelectRename
    \/ Annotate
    \/ CleanCast

SpecLoad == InitLoad /\ [][NextLoad]_vars

(***************************************************************************)
(* Claims on find_start (SpecStart).                                       *)
(***************************************************************************)
\* text begins with prefix, stated on the lengths of its initial segments
HasPrefix(text, prefix) == \E n \in 0..Len(text) : SubSeq(text, 1, n) = prefix

\* the 1-based positions of the records holding a cell that begins with the marker
MarkerRecords(f) ==
    {i \in 1..Len(f) : \E j \in 1..Len(f[i]) : HasPrefix(f[i][j], "Experiment")}

FiveJunkThenMarker ==
    <<JunkRecord, JunkRecord, JunkRecord, JunkRecord, JunkRecord, <<"Experiment 1">>>>

\* C5: find_start returns the zero-based index of the first record, top to bottom, that
\* holds a cell whose text starts with the marker (a prefix match, not equality); five
\* junk records followed by a record with the cell "Experiment 1" give 5.
C5_FirstMarkerIndex ==
    /\ (pc \in {"located", "parsed"} /\ MarkerRecords(file) # {}) =>
          /\ skiprows + 1 \in MarkerRecords(file)
          /\ \A i \in MarkerRecords(file) : skiprows + 1 <= i
    /\ (pc \in {"located", "parsed"} /\ file = FiveJunkThenMarker) => skiprows = 5

C5_Witness == pc = "located" /\ file = FiveJunkThenMarker /\ skiprows = 5

\* C10: when no record holds a cell starting with the marker, find_start fails with a
\* FormatError: it returns no value and the load does not go on to parse the file.
C10_NoMarkerRaises ==
    (pc # "validated" /\ MarkerRecords(file) = {}) => (pc = "raised" /\ err = "FormatError")

(***************************************************************************)
(* Claims on load (SpecLoad).                                              *)
(***************************************************************************)
\* load_data (fc_dat) / load_dat (legacy) has returned its table
LoadReturned == pc = "loaded"

\* C1 as stated: for every session, export and configuration (sex recorded or not) the
\* table load returns has exactly the five canonical columns.
C1_ExactlyFiveColumns == LoadReturned => df.cols = new_col_list

\* C1 as amended: the table load returns has the five canonical columns, followed by a
\* Sex column exactly when fc_dat's load_data runs with sex recorded and a non-empty
\* sex_ids mapping; whatever other column the export holds is dropped.
C1_FiveColumnsAndSex ==
    LoadReturned =>
        df.cols = IF variant = "fc_dat" /\ cfg.sex /\ Len(cfg.sex_ids) > 0
                  THEN Append(new_col_list, "Sex")
                  ELSE new_col_list

C1_Witness ==
    /\ LoadReturned
    /\ variant = "fc_dat"
    /\ cfg.sex
    /\ \E i \in 1..Len(file) : file[i] = HeaderFull
    /\ Len(df.rows) = MaxRows
    /\ df.cols = Append(new_col_list, "Sex")

\* the pipeline has fixed the type of Animal: load_data returned (fc_dat), or clean_dat
\* made its casts (legacy)
AnimalSettled ==
    \/ variant = "fc_dat" /\ pc = "loaded"
    \/ variant = "legacy" /\ pc = "cast"

\* the export's Animal column holds numbers only (blank cells aside)
SourceAnimalNumeric ==
    \E i \in 1..Len(file) : \E j \in 1..Len(file[i]) :
        /\ file[i][j] = "Animal"
        /\ \A k \in (i + 1)..Len(file) :
              IsIntText(file[k][j]) \/ IsFloatText(file[k][j]) \/ IsNA(file[k][j])

\* C2: after load every Animal is a string, and a numeric source value goes through
\* integer truncation: 3.0 becomes "3", never "3.0", in every pipeline variant.
C2_AnimalTruncatedString ==
    (AnimalSettled /\ SourceAnimalNumeric) =>
        \A r \in 1..Len(df.rows) :
            /\ Cell(df, r, "Animal").t = "str"
            /\ ~contains(Cell(df, r, "Animal").s, ".")

\* C9: the session name is compared case-insensitively with the configured sessions: a
\* name equal to a configured one up to letter case is accepted, any other raises the
\* invalid-session error, before the source file is read.
C9_CaseInsensitiveSession ==
    pc # "start" =>
        ((\E s \in cfg.sessions : lower(s) = lower(session)) <=> err # "InvalidSession")

(***************************************************************************)
(* clean_data / clean_dat: the Phase column.                               *)
(***************************************************************************)
\* get_baseline_vals: the Component values before the first one whose lower() is 'tone-1'
RECURSIVE get_baseline_vals_to_tone(_)
\* a variant of get_baseline_vals that stops at the first value containing 'tone'
get_baseline_vals_to_tone(items) ==
    IF Len(items) = 0 THEN <<>>
    ELSE IF ~contains(lower(Head(items)), "tone")
         THEN <<Head(items)>> \o get_baseline_vals_to_tone(Tail(items))
         ELSE <<>>

RECURSIVE get_baseline_vals(_)
get_baseline_vals(items) ==
    IF Len(items) = 0 THEN <<>>
    ELSE IF lower(Head(items)) # "tone-1"
         THEN <<Head(items)>> \o get_baseline_vals(Tail(items))
         ELSE <<>>

Column(d, name) == [r \in 1..Len(d.rows) |-> Cell(d, r, name)]

\* the four masked assignments that turn the lower-cased Component into the Phase
phase_of(comp, baseline_vals) ==
    LET p1 == IF comp \in Range(baseline_vals) THEN "baseline" ELSE comp
        p2 == IF contains(p1, "tone") THEN "tone" ELSE p1
        p3 == IF contains(p2, "trace") THEN "trace" ELSE p2
    IN  IF p3 \notin {"baseline", "tone", "trace"} THEN "iti" ELSE p3

\* the else-branch: Component lower-cased, Phase derived from it
label_phase(d) ==
    LET low == [r \in 1..Len(d.rows) |-> lower(Cell(d, r, "Component").s)]
        lowered == SetCol(d, "Component", "object", [r \in 1..Len(d.rows) |-> StrV(low[r])])
        baseline_vals == get_baseline_vals(low)
    IN  SetCol(lowered, "Phase", "object",
               [r \in 1..Len(d.rows) |-> StrV(phase_of(low[r], baseline_vals))])

\* the context branch: Component cast to int, Phase the constant 'context'
label_context(d) ==
    SetCol(SetCol(d, "Component", "int64",
                  [r \in 1..Len(d.rows) |->
                      IF Cell(d, r, "Component").t = "str"
                      THEN IntV(ParseInt(Cell(d, r, "Component").s))
                      ELSE astype_int(Cell(d, r, "Component"))]),
           "Phase", "object", [r \in 1..Len(d.rows) |-> StrV("context")])

\* astype('int') raises on a text that is no integer and on NaN
int_cast_raises(d) ==
    \E r \in 1..Len(d.rows) :
        \/ isnull(Cell(d, r, "Component"))
        \/ Cell(d, r, "Component").t = "str" /\ ~IsIntText(Cell(d, r, "Component").s)

\* x.lower() raises AttributeError on a value that is no str
lower_raises(d) == \E r \in 1..Len(d.rows) : Cell(d, r, "Component").t # "str"

\* `session is '<literal>'`: identity, which can hold only for equal values and then
\* depends on whether the caller's string is the interned literal
is_literal(s, literal) == s = literal /\ interned

\* the literal each variant tests the session against
context_literal == IF variant = "fc_dat" THEN "context" ELSE "ctx"

\* whether the branch that derives the phase from the component names is taken
takes_phase_branch ==
    IF variant = "fc_dat" THEN ~is_literal(session, context_literal)
    ELSE ~is_literal(session, context_literal) /\ session \in {"train", "tone"}

DerivePhase ==
    /\ \/ pc = "loaded" /\ variant = "fc_dat"
       \/ pc = "cast" /\ variant = "legacy"
    /\ df0' = df
    /\ IF is_literal(session, context_literal)
       THEN IF int_cast_raises(df)
            THEN Raise("ValueError") /\ df' = df
            ELSE df' = label_context(df) /\ pc' = "phased" /\ err' = err
       ELSE IF takes_phase_branch
       THEN IF lower_raises(df)
            THEN Raise("AttributeError") /\ df' = df
            ELSE df' = label_phase(df) /\ pc' = "phased" /\ err' = err
       ELSE df' = df /\ pc' = "phased" /\ err' = err
    /\ UNCHANGED <<variant, session, interned, cfg, file, skiprows, out, comp_labs, win>>

\* legacy clean_dat: the group and sex loops come after the Phase
AnnotateLegacy ==
    /\ pc = "phased"
    /\ variant = "legacy"
    /\ df0' = df
    /\ IF annotate_raises(df, cfg)
       THEN Raise("ValueError") /\ df' = df
       ELSE /\ df' = annotate(df, cfg)
            /\ pc' = "annotated"
            /\ err' = err
    /\ UNCHANGED <<variant, session, interned, cfg, file, skiprows, out, comp_labs, win>>

\* the group and sex loops run once more on their own result, with the same configuration
AnnotateAgain ==
    /\ \/ pc = "loaded" /\ variant = "fc_dat"
       \/ pc = "annotated" /\ variant = "legacy"
    /\ out' = df
    /\ df' = annotate(df, cfg)
    /\ pc' = "twice"
    /\ UNCHANGED <<variant, session, interned, cfg, file, skiprows, df0, err, comp_labs, win>>

final_cols == <<"Animal", "Sex", "Group", "Phase", "Component", "PctFreeze", "AvgMotion">>

\* prism_format is False: reindex to the seven output columns
FinalReindex ==
    /\ \/ pc = "phased" /\ variant = "fc_dat"
       \/ pc = "annotated" /\ variant = "legacy"
    /\ df' = reindex(df, final_cols)
    /\ pc' = "cleaned"
    /\ UNCHANGED <<variant, session, interned, cfg, file, skiprows, df0, out, err, comp_labs, win>>

(***************************************************************************)
(* Tables as load leaves them, for the stages after load.                  *)
(***************************************************************************)
MaxTableRows == 3   \* rows of a table handed to the group loops
MaxTokens == 3      \* rows of a table handed to the phase derivation

Frame(rows) ==
    [cols |-> new_col_list,
     dtypes |-> <<"object", "object", "object", "float64", "float64">>,
     rows |-> rows]

GroupRows ==
    {<<StrV(a), g, StrV("tone-1"), FloatV(500), FloatV(15)>> :
        a \in {"1", "3", "m1"}, g \in {NaN, StrV("g0")}}

GroupTables == {Frame(rows) : rows \in SeqsUpTo(GroupRows, 1, MaxTableRows)}

Tokens == {"Baseline", "Tone-1", "Trace-1", "ITI-1", "Pre-Tone"}
Bins == {<<IntV(1)>>, <<IntV(1), IntV(2)>>, <<StrV("1"), StrV("2")>>}

\* the rows up to position split belong to animal "1", the others to animal "3"
PhaseRows(comps, split) ==
    [r \in 1..Len(comps) |->
        <<StrV(IF r <= split THEN "1" ELSE "3"), NaN, comps[r], FloatV(500), FloatV(15)>>]

PhaseTables ==
    {Frame(PhaseRows(comps, split)) :
        comps \in {[r \in 1..Len(toks) |-> StrV(toks[r])] : toks \in SeqsUpTo(Tokens, 1, MaxTokens)}
                  \cup Bins,
        split \in 1..MaxTokens}

PhaseSessions == {"context", "ctx", "train"}

(***************************************************************************)
(* SpecGroups: the group and sex loops, once and twice.                    *)
(***************************************************************************)
InitGroups ==
    /\ variant \in Variants
    /\ pc = IF variant = "fc_dat" THEN "renamed" ELSE "phased"
    /\ session = "train"
    /\ interned = FALSE
    /\ cfg \in Configs
    /\ file = <<>>
    /\ skiprows = None
    /\ df \in GroupTables
    /\ df0 = EmptyFrame
    /\ out = EmptyFrame
    /\ err = NoErr
    /\ comp_labs = <<>>
    /\ win = NoWin

NextGroups == Annotate \/ AnnotateLegacy \/ AnnotateAgain

SpecGroups == InitGroups /\ [][NextGroups]_vars

(***************************************************************************)
(* SpecPhase: clean_data / clean_dat from the loaded table to the output.  *)
(***************************************************************************)
InitPhase ==
    /\ variant \in Variants
    /\ pc = IF variant = "fc_dat" THEN "loaded" ELSE "cast"
    /\ session \in PhaseSessions
    /\ interned \in BOOLEAN
    /\ cfg = [sessions |-> PhaseSessions, group_ids |-> GroupsA, sex |-> FALSE, sex_ids |-> <<>>]
    /\ file = <<>>
    /\ skiprows = None
    /\ df \in IF variant = "fc_dat" THEN PhaseTables ELSE {clean_cast(t) : t \in PhaseTables}
    /\ df0 = EmptyFrame
    /\ out = EmptyFrame
    /\ err = NoErr
    /\ comp_labs = <<>>
    /\ win = NoWin

NextPhase == DerivePhase \/ AnnotateLegacy \/ FinalReindex

SpecPhase == InitPhase /\ [][NextPhase]_vars

(***************************************************************************)
(* SpecBaseline: the phase derivation of a non-context session ("train"),  *)
(* where the identity test on the session name is false in both variants.  *)
(***************************************************************************)
InitBaseline ==
    /\ variant \in Variants
    /\ pc = IF variant = "fc_dat" THEN "loaded" ELSE "cast"
    /\ session = "train"
    /\ interned = FALSE
    /\ cfg = [sessions |-> PhaseSessions, group_ids |-> GroupsA, sex |-> FALSE, sex_ids |-> <<>>]
    /\ file = <<>>
    /\ skiprows = None
    /\ df \in IF variant = "fc_dat" THEN PhaseTables ELSE {clean_cast(t) : t \in PhaseTables}
    /\ df0 = EmptyFrame
    /\ out = EmptyFrame
    /\ err = NoErr
    /\ comp_labs = <<>>
    /\ win = NoWin

NextBaseline == DerivePhase \/ AnnotateLegacy \/ FinalReindex

SpecBaseline == InitBaseline /\ [][NextBaseline]_vars

(***************************************************************************)
(* Claims on the group loop (SpecGroups).                                  *)
(***************************************************************************)
\* the group loop has run once on df0 and left df
GroupsAssigned ==
    \/ pc = "loaded" /\ variant = "fc_dat"
    \/ pc = "annotated" /\ variant = "legacy"

\* the positions of the group_ids entries whose set holds the animal
Memberships(a) == {i \in 1..Len(cfg.group_ids) : a \in cfg.group_ids[i].val}

LastMembership(a) == CHOOSE i \in Memberships(a) : \A k \in Memberships(a) : k <= i

SameRowsAs(d) ==
    /\ Len(df.rows) = Len(d.rows)
    /\ \A r \in 1..Len(df.rows) : Cell(df, r, "Animal") = Cell(d, r, "Animal")

\* C6 as stated: a row whose Animal is in at least one configured set has the label of
\* the last such entry in mapping order; a row whose Animal is in no set has Group unset.
C6_LastMatchOrUnset ==
    GroupsAssigned =>
        /\ SameRowsAs(df0)
        /\ \A r \in 1..Len(df.rows) :
              IF Memberships(Cell(df, r, "Animal")) # {}
              THEN Cell(df, r, "Group")
                       = StrV(cfg.group_ids[LastMembership(Cell(df, r, "Animal"))].key)
              ELSE isnull(Cell(df, r, "Group"))

\* C6 as amended: a row whose Animal is in at least one configured set has the label of
\* the last such entry in mapping order; a row whose Animal is in no set keeps the Group
\* it had before (the source export's value, unset only when the export gave none).
C6_LastMatchOrKept ==
    GroupsAssigned =>
        /\ SameRowsAs(df0)
        /\ \A r \in 1..Len(df.rows) :
              IF Memberships(Cell(df, r, "Animal")) # {}
              THEN Cell(df, r, "Group")
                       = StrV(cfg.group_ids[LastMembership(Cell(df, r, "Animal"))].key)
              ELSE Cell(df, r, "Group") = Cell(df0, r, "Group")

C6_Witness ==
    /\ GroupsAssigned
    /\ \E r \in 1..Len(df.rows) :
          /\ Cardinality(Memberships(Cell(df, r, "Animal"))) = 2
          /\ Cell(df, r, "Group") = StrV("exp")
    /\ \E r \in 1..Len(df.rows) :
          /\ Memberships(Cell(df, r, "Animal")) = {}
          /\ Cell(df, r, "Group") = StrV("g0")

\* C7: the group loop is idempotent: run twice with the same configuration it leaves
\* the table it left after the first run.
C7_AssignIdempotent == pc = "twice" => df = out

C7_Witness ==
    /\ pc = "twice"
    /\ df = out
    /\ df # df0
    /\ \E r \in 1..Len(df.rows) : Cardinality(Memberships(Cell(df, r, "Animal"))) = 2

(***************************************************************************)
(* Claims on the phase derivation (SpecPhase).                             *)
(***************************************************************************)
ClosedPhases == {"baseline", "tone", "trace", "iti"}

\* every Component of the table handed to the derivation is a text token
TextComponents(d) == \A r \in 1..Len(d.rows) : Cell(d, r, "Component").t = "str"

\* C3: for any input table every row gets a Phase in {baseline, tone, trace, iti} when
\* the session is not "context", and the Phase "context" when the session is "context",
\* whatever string object carries the session name. (A non-context table is taken to
\* hold text tokens: lower() is not defined on anything else.)
C3_PhaseClosedSet ==
    (pc \in {"phased", "raised"} /\ (session # "context" => TextComponents(df0))) =>
        /\ pc = "phased"
        /\ HasCol(df, "Phase")
        /\ \A r \in 1..Len(df.rows) :
              /\ Cell(df, r, "Phase").t = "str"
              /\ IF session = "context"
                 THEN Cell(df, r, "Phase").s = "context"
                 ELSE Cell(df, r, "Phase").s \in ClosedPhases

(***************************************************************************)
(* clean_data with prism_format: the wide table.  The wide table is held   *)
(* as [index, columns, cell]: index is the set of (Animal, Group) keys     *)
(* (the order sort_values('Group') gives them is not modelled), columns    *)
(* the pivot values in order, cell the value at a key and a column.        *)
(***************************************************************************)
MaxPivotRows == 3   \* rows of a table handed to the pivot

RECURSIVE unique(_)
\* Series.unique(): the distinct values in the order they first occur
unique(vals) ==
    IF Len(vals) = 0 THEN <<>>
    ELSE LET front == unique(SubSeq(vals, 1, Len(vals) - 1))
         IN  IF vals[Len(vals)] \in Range(front) THEN front
             ELSE Append(front, vals[Len(vals)])

RECURSIVE SumTenths(_, _)
SumTenths(d, rs) ==
    IF rs = {} THEN 0
    ELSE LET r == CHOOSE x \in rs : TRUE
         IN  Cell(d, r, "PctFreeze").n + SumTenths(d, rs \ {r})

\* aggfunc mean over the rows rs, nulls skipped; NaN when none is left.  The quotient is
\* held at the model's resolution of a tenth.
mean(d, rs) ==
    LET present == {r \in rs : ~isnull(Cell(d, r, "PctFreeze"))}
    IN  IF present = {} THEN NaN
        ELSE FloatV(SumTenths(d, present) \div Cardinality(present))

\* the rows the groupby of pivot_table keeps: no null in any of the three keys
keyed_rows(d, col) ==
    {r \in 1..Len(d.rows) :
        /\ ~isnull(Cell(d, r, "Animal"))
        /\ ~isnull(Cell(d, r, "Group"))
        /\ ~isnull(Cell(d, r, col))}

group_rows(d, col, k, c) ==
    {r \in keyed_rows(d, col) :
        /\ Cell(d, r, "Animal") = k[1]
        /\ Cell(d, r, "Group") = k[2]
        /\ Cell(d, r, col) = c}

\* df.pivot_table(values='PctFreeze', index=['Animal', 'Group'], columns=col)
\*   .reindex(col_order, axis=1).sort_values('Group').reset_index()
pivot_table(d, col) ==
    LET col_order == unique(Column(d, col))
        index == {<<Cell(d, r, "Animal"), Cell(d, r, "Group")>> :
                     r \in {x \in keyed_rows(d, col) :
                               ~isnull(mean(d, group_rows(d, col,
                                   <<Cell(d, x, "Animal"), Cell(d, x, "Group")>>,
                                   Cell(d, x, col))))}}
    IN  [index |-> index,
         columns |-> col_order,
         pivot_col |-> col,
         cell |-> [k \in index |->
                     [j \in 1..Len(col_order) |-> mean(d, group_rows(d, col, k, col_order[j]))]]]

\* prism_format is True.  legacy clean_dat passes the Series df['PctFreeze'] as `values`,
\* whose elements are no column labels: pivot_table raises KeyError.
PrismPivot ==
    /\ \/ pc = "phased" /\ variant = "fc_dat"
       \/ pc = "annotated" /\ variant = "legacy"
    /\ df0' = df
    /\ IF variant = "legacy"
       THEN Raise("KeyError") /\ out' = out
       ELSE /\ \E prism_col \in {"Component", "Phase"} : out' = pivot_table(df, prism_col)
            /\ pc' = "pivoted"
            /\ err' = err
    /\ UNCHANGED <<variant, session, interned, cfg, file, skiprows, df, comp_labs, win>>

PivotRowKinds == {"1", "3"} \X {NaN, StrV("g0")} \X {"tone-1", "trace-1"}

\* a phase-labelled table; the PctFreeze of row r is r * 10.0
PivotTable(kinds) ==
    label_phase(Frame([r \in 1..Len(kinds) |->
        <<StrV(kinds[r][1]), kinds[r][2], StrV(kinds[r][3]), FloatV(100 * r), FloatV(15)>>]))

PivotTables == {PivotTable(kinds) : kinds \in SeqsUpTo(PivotRowKinds, 1, MaxPivotRows)}

(***************************************************************************)
(* SpecPivot: the prism_format branch of clean_data / clean_dat.           *)
(***************************************************************************)
InitPivot ==
    /\ variant \in Variants
    /\ pc = IF variant = "fc_dat" THEN "phased" ELSE "annotated"
    /\ session = "train"
    /\ interned = FALSE
    /\ cfg = NoCfg
    /\ file = <<>>
    /\ skiprows = None
    /\ df \in PivotTables
    /\ df0 = EmptyFrame
    /\ out = EmptyFrame
    /\ err = NoErr
    /\ comp_labs = <<>>
    /\ win = NoWin

NextPivot == PrismPivot \/ FinalReindex

SpecPivot == InitPivot /\ [][NextPivot]_vars

(***************************************************************************)
(* Claims on the wide table (SpecPivot).                                   *)
(***************************************************************************)
\* the wide table un-pivoted: one (Animal, Group, pivot value, value) row per key and column
Melt(w) ==
    {<<k[1], k[2], w.columns[j], w.cell[k][j]>> : k \in w.index, j \in 1..Len(w.columns)}

\* the same four fields of row r of the long table
LongRow(d, col, r) ==
    <<Cell(d, r, "Animal"), Cell(d, r, "Group"), Cell(d, r, col), Cell(d, r, "PctFreeze")>>

\* C8: un-pivoting the wide table on the same keys and pivot column gives back the rows
\* of the long table up to order: none lost (an animal with Group unset included), none
\* added, no value changed.
C8_PivotMeltRoundTrip ==
    pc = "pivoted" =>
        /\ \A r \in 1..Len(df0.rows) : LongRow(df0, out.pivot_col, r) \in Melt(out)
        /\ \A m \in Melt(out) :
              Cardinality({r \in 1..Len(df0.rows) : LongRow(df0, out.pivot_col, r) = m}) = 1

(***************************************************************************)
(* label_fc_data and tfc_trials_df.  Times are whole hundredths of a       *)
(* second, held as a value with t = "sec" and n the hundredths; the boundary   *)
(* table and the window offsets are in the same unit.                      *)
(***************************************************************************)
SecV(h) == [t |-> "sec", n |-> h, s |-> ""]

\* np.around of a / b (b > 0) to a whole number: half goes to the even neighbour
round_div(a, b) ==
    LET q == a \div b
        rem == a % b
    IN  IF 2 * rem < b THEN q
        ELSE IF 2 * rem > b THEN q + 1
        ELSE IF q % 2 = 0 THEN q ELSE q + 1

\* np.linspace(lo, hi, n)[k], k from 0, rounded to a multiple of unit hundredths
linspace_at(lo, hi, n, k, unit) ==
    IF n = 1 THEN unit * round_div(lo, unit)
    ELSE unit * round_div(lo * (n - 1) + (hi - lo) * k, unit * (n - 1))

RECURSIVE MaxEnd(_)
\* max(comp_labs['end'])
MaxEnd(labs) ==
    IF Len(labs) = 1 THEN labs[1].end
    ELSE LET m == MaxEnd(Tail(labs)) IN IF labs[1].end > m THEN labs[1].end ELSE m

animals(d) == unique(Column(d, "Animal"))

\* len(df.query('Animal == @df.Animal.unique()[0]'))
n_components(d) ==
    Cardinality({r \in 1..Len(d.rows) : Cell(d, r, "Animal") = animals(d)[1]})

RECURSIVE label_epochs_keep_first(_, _, _)
\* a variant of label_epochs in which a row keeps the first label it was given
label_epochs_keep_first(d, labs, i) ==
    IF i > Len(labs) THEN d
    ELSE label_epochs_keep_first(
            SetCol(d, "epoch", "object",
                   [r \in 1..Len(d.rows) |->
                       IF /\ labs[i].start <= Cell(d, r, "Component").n
                          /\ Cell(d, r, "Component").n <= labs[i].end
                          /\ Cell(d, r, "epoch").t = "sec"
                       THEN StrV(labs[i].phase)
                       ELSE Cell(d, r, "epoch")]),
            labs, i + 1)

RECURSIVE label_epochs(_, _, _)
\* for i in range(len(comp_labs)): df.loc[Component.between(start[i], end[i]), 'epoch'] = phase[i]
label_epochs(d, labs, i) ==
    IF i > Len(labs) THEN d
    ELSE label_epochs(
            SetCol(d, "epoch", "object",
                   [r \in 1..Len(d.rows) |->
                       IF /\ labs[i].start <= Cell(d, r, "Component").n
                          /\ Cell(d, r, "Component").n <= labs[i].end
                       THEN StrV(labs[i].phase)
                       ELSE Cell(d, r, "epoch")]),
            labs, i + 1)

\* Component becomes the tiled, rounded time axis; epoch starts as a copy of it
label_fc_data(d, labs) ==
    LET n == n_components(d)
        timed == SetCol(d, "Component", "float64",
                        [r \in 1..Len(d.rows) |->
                            SecV(linspace_at(0, MaxEnd(labs), n, (r - 1) % n, 1))])
        copied == SetCol(timed, "epoch", "float64",
                         [r \in 1..Len(d.rows) |-> Cell(timed, r, "Component")])
    IN  label_epochs(copied, labs, 1)

\* tfc_comp_times: the protocol is read off the session name
protocol_known(s) == contains(lower(s), "train") \/ contains(lower(s), "tone")

LabelFcData ==
    /\ pc = "loaded"
    /\ variant = "fc_dat"
    /\ IF ~protocol_known(session)
       THEN Raise("ValueError") /\ df' = df
       ELSE IF n_components(df) * Len(animals(df)) # Len(df.rows)
       THEN Raise("ValueError") /\ df' = df
       ELSE /\ df' = label_fc_data(df, comp_labs)
            /\ pc' = "labelled"
            /\ err' = err
    /\ UNCHANGED <<variant, session, interned, cfg, file, skiprows, df0, out, comp_labs, win>>

\* trials_idx: the positions of the boundary entries whose phase contains 'tone'
trials_idx(labs) == SelectSeq2([i \in 1..Len(labs) |-> i],
                               {i \in 1..Len(labs) : contains(labs[i].phase, "tone")})

RECURSIVE tag_trials(_, _, _, _, _)
\* the loop over trials_idx: rows with start <= Component <= end get Trial = trial_no
tag_trials(d, labs, w, idx, trial_no) ==
    IF trial_no > Len(idx) THEN d
    ELSE LET start == labs[idx[trial_no]].start + w.start
             end == labs[idx[trial_no]].start + w.end
         IN  tag_trials(
                SetCol(d, "Trial", "float64",
                       [r \in 1..Len(d.rows) |->
                           IF start <= Cell(d, r, "Component").n /\ Cell(d, r, "Component").n <= end
                           THEN IntV(trial_no)
                           ELSE IF HasCol(d, "Trial") THEN Cell(d, r, "Trial") ELSE NaN]),
                labs, w, idx, trial_no + 1)

\* the tagged table after df.dropna().reset_index(drop=True)
windowed(d, labs, w) == dropna(tag_trials(d, labs, w, trials_idx(labs), 1))

\* len(df.query('Animal == @df.Animal[0] and Trial == @df.Trial[0]'))
n_points(t) ==
    Cardinality({r \in 1..Len(t.rows) :
                    /\ Cell(t, r, "Animal") = Cell(t, 1, "Animal")
                    /\ Cell(t, r, "Trial") = Cell(t, 1, "Trial")})

\* df['trial_time'] = np.tile(np.around(np.linspace(win_start, win_end, n_points), 1), ...)
with_trial_time(t, w) ==
    SetCol(t, "trial_time", "float64",
           [r \in 1..Len(t.rows) |->
               SecV(linspace_at(w.start, w.end, n_points(t), (r - 1) % n_points(t), 10))])

TrialsDf ==
    /\ pc = "labelled"
    /\ df0' = df
    /\ LET idx == trials_idx(comp_labs)
           t == windowed(df, comp_labs, win)
       IN  IF Len(idx) = 0
           THEN Raise("KeyError") /\ df' = df                  \* no 'Trial' column
           ELSE IF Len(t.rows) = 0
           THEN Raise("KeyError") /\ df' = t                   \* df.Animal[0]
           ELSE IF n_points(t) * Len(idx) * Len(animals(df)) # Len(t.rows)
           THEN Raise("ValueError") /\ df' = t                 \* length of the tiled axis
           ELSE /\ df' = with_trial_time(t, win)
                /\ pc' = "trials"
                /\ err' = err
    /\ UNCHANGED <<variant, session, interned, cfg, file, skiprows, out, comp_labs, win>>

(***************************************************************************)
(* SpecTrials: label_fc_data then the windowing of tfc_trials_df.          *)
(***************************************************************************)
MaxComps == 4      \* rows per animal of a table handed to label_fc_data

Boundary(p, s, e) == [phase |-> p, start |-> s, end |-> e]

BoundaryTables ==
    {<<Boundary("baseline", 0, 100), Boundary("tone-1", 100, 200), Boundary("trace-1", 200, 300)>>,
     <<Boundary("baseline", 0, 100), Boundary("tone-1", 100, 200), Boundary("tone-2", 200, 300)>>,
     <<Boundary("tone-1", 0, 150), Boundary("iti-1", 100, 300), Boundary("tone-2", 300, 300)>>,
     <<Boundary("tone-1", 0, 100), Boundary("tone-2", 100, 200), Boundary("tone-3", 200, 300)>>,
     <<Boundary("baseline", 0, 66), Boundary("trace-1", 100, 200), Boundary("iti-1", 200, 200)>>}

Windows == {[start |-> 0, end |-> 100], [start |-> -100, end |-> 100],
            [start |-> 0, end |-> 50], [start |-> -100, end |-> 200]}

\* a loaded table: na animals of n rows each (the last animal one row short when
\* ragged), Group per animal, PctFreeze null at row `hole` (0: nowhere)
TrialRows(na, n, grp, hole, ragged) ==
    [r \in 1..(na * n - (IF ragged THEN 1 ELSE 0)) |->
        <<StrV(ToString(1 + (r - 1) \div n)), grp[1 + (r - 1) \div n], StrV("c"),
          IF r = hole THEN NaN ELSE FloatV(100 * r), FloatV(15)>>]

TrialTables ==
    {Frame(TrialRows(na, n, grp, hole, ragged)) :
        na \in 1..2, n \in 1..MaxComps, grp \in [1..2 -> {NaN, StrV("g0")}],
        hole \in 0..2, ragged \in BOOLEAN} \ {Frame(<<>>)}

InitTrials ==
    /\ variant = "fc_dat"
    /\ pc = "loaded"
    /\ session \in {"train", "ctx"}
    /\ interned = FALSE
    /\ cfg = NoCfg
    /\ file = <<>>
    /\ skiprows = None
    /\ df \in TrialTables
    /\ df0 = EmptyFrame
    /\ out = EmptyFrame
    /\ err = NoErr
    /\ comp_labs \in BoundaryTables
    /\ win \in Windows

NextTrials == LabelFcData \/ TrialsDf

SpecTrials == InitTrials /\ [][NextTrials]_vars

(***************************************************************************)
(* Claims on the trial windows (SpecTrials).                               *)
(***************************************************************************)
\* the start times of the stimulus onsets, in boundary-table order
Onsets ==
    LET tones == SelectSeq(comp_labs, LAMBDA b : contains(b.phase, "tone"))
    IN  [k \in 1..Len(tones) |-> tones[k].start]

InWindow(time, k) == Onsets[k] + win.start <= time /\ time <= Onsets[k] + win.end

\* row r of the labelled table df0 is in the output with the Trial tag k
OutputHas(r, k) ==
    \E q \in 1..Len(df.rows) :
        /\ Cell(df, q, "Animal") = Cell(df0, r, "Animal")
        /\ Cell(df, q, "Component") = Cell(df0, r, "Component")
        /\ Cell(df, q, "Trial") = IntV(k)

\* C4: the onsets are numbered 1..n in table order; every row of every animal whose
\* timestamp lies in the window of onset k is in the output tagged k, and a row whose
\* timestamp lies in no window is not in the output.
C4_WindowRowsTagged ==
    pc = "trials" =>
        \A r \in 1..Len(df0.rows) :
            LET time == Cell(df0, r, "Component").n
            IN  /\ \A k \in 1..Len(Onsets) : InWindow(time, k) => OutputHas(r, k)
                /\ (\A k \in 1..Len(Onsets) : ~InWindow(time, k)) =>
                       \A k \in 1..Len(Onsets) : ~OutputHas(r, k)

\* tfc_trials_df has run on the labelled table df0 (it returned or it raised)
TrialsDfActed == pc \in {"trials", "raised"} /\ HasCol(df0, "epoch")

\* the numbered trials that no row of the filtered table carries
MissingTrials ==
    {k \in 1..Len(Onsets) :
        ~\E q \in 1..Len(df.rows) : HasCol(df, "Trial") /\ Cell(df, q, "Trial") = IntV(k)}

\* C11: whenever, after the filtering, some numbered trial 1..n has no surviving row,
\* windowed_trials fails with an EmptyWindowError; it never returns a table in which a
\* trial 1..n is missing.
C11_EmptyWindowError ==
    (TrialsDfActed /\ MissingTrials # {}) => (pc = "raised" /\ err = "EmptyWindowError")

(***************************************************************************)
(* Claims on the boundary-table labelling (SpecTrials).                    *)
(***************************************************************************)
\* the boundary entries whose interval [start, end] holds the time, ends included
Hits(time) == {i \in 1..Len(comp_labs) : comp_labs[i].start <= time /\ time <= comp_labs[i].end}

LastHit(time) == CHOOSE i \in Hits(time) : \A j \in Hits(time) : j <= i

\* C12: after label_by_boundary_table, a row whose timestamp lies in at least one
\* boundary interval (both ends inclusive) has epoch equal to the phase of the last such
\* boundary in table order; a row whose timestamp lies in no interval keeps epoch equal
\* to its timestamp.
C12_EpochLastBoundary ==
    pc = "labelled" =>
        \A r \in 1..Len(df.rows) :
            LET time == Cell(df, r, "Component").n
            IN  IF Hits(time) # {}
                THEN Cell(df, r, "epoch") = StrV(comp_labs[LastHit(time)].phase)
                ELSE Cell(df, r, "epoch") = Cell(df, r, "Component")

C12_Witness ==
    /\ pc = "labelled"
    /\ \E r \in 1..Len(df.rows) :
          /\ Cardinality(Hits(Cell(df, r, "Component").n)) >= 2
          /\ Cell(df, r, "Component").n = comp_labs[LastHit(Cell(df, r, "Component").n)].start
          /\ Cell(df, r, "epoch") = StrV(comp_labs[LastHit(Cell(df, r, "Component").n)].phase)
    /\ \E r \in 1..Len(df.rows) :
          /\ Hits(Cell(df, r, "Component").n) = {}
          /\ Cell(df, r, "epoch") = Cell(df, r, "Component")

(***************************************************************************)
(* Claims on the baseline prefix (SpecBaseline).                           *)
(***************************************************************************)
\* the phase derivation of a non-context session has run on the table df0
NonContextPhased == pc = "phased" /\ session = "train"

RECURSIVE TokensUpTo(_)
\* the lower-cased Component tokens of the first n rows of the table handed to the
\* derivation, in table order
TokensUpTo(n) ==
    IF n = 0 THEN <<>>
    ELSE Append(TokensUpTo(n - 1), lower(Cell(df0, n, "Component").s))

Token == TokensUpTo(Len(df0.rows))

\* the tokens of the rows before the first one, in table order, whose token is "tone-1"
BaselinePrefix(toks) ==
    {toks[r] : r \in {r \in 1..Len(toks) : \A q \in 1..r : toks[q] # "tone-1"}}

\* C13: in a non-context session the baseline membership is decided before the
\* substring tests: a row whose lower-cased token is in the prefix of tokens before the
\* first "tone-1" is baseline even when the token contains "tone" or "trace"; of the
\* other rows, a token containing "tone" is tone, otherwise one containing "trace" is
\* trace, otherwise iti.
C13_BaselineBeforeSubstring ==
    NonContextPhased =>
        LET toks == Token
            prefix == BaselinePrefix(toks)
        IN  \A r \in 1..Len(df.rows) :
                Cell(df, r, "Phase").s =
                    IF toks[r] \in prefix THEN "baseline"
                    ELSE IF contains(toks[r], "tone") THEN "tone"
                    ELSE IF contains(toks[r], "trace") THEN "trace"
                    ELSE "iti"

Block(q) ==
    {p \in 1..Len(df.rows) :
        /\ Cell(df, p, "Animal") = Cell(df, q, "Animal")
        /\ Cell(df, p, "Trial") = Cell(df, q, "Trial")}

\* the position of row q inside its block, in table order, counted from 1
RankInBlock(q) == Cardinality({p \in Block(q) : p <= q})

\* C14: trial_time is the n_points-value sequence from window_start to window_end laid
\* over the rows so that, inside every (trial, animal) block, the k-th row in table
\* order carries the k-th value: the block has as many rows as the sequence has values,
\* starts at window_start and (with more than one row) ends at window_end.
C14_TrialTimePerBlock ==
    pc = "trials" =>
        \A q \in 1..Len(df.rows) :
            LET m == Cardinality(Block(q))
                k == RankInBlock(q)
            IN  /\ m = n_points(df)
                /\ Cell(df, q, "trial_time") = SecV(linspace_at(win.start, win.end, m, k - 1, 10))
                /\ k = 1 => Cell(df, q, "trial_time") = SecV(win.start)
                /\ (k = m /\ m > 1) => Cell(df, q, "trial_time") = SecV(win.end)

====
